---- MODULE Spec2Model ----
(***************************************************************************)
(* NymView: the navigation/session state machine of NymMixnetBrowser      *)
(* (src/src/mixnet_browser.rs) and the two queues that bridge the UI loop  *)
(* and the background mixnet tasks.                                        *)
(*                                                                         *)
(* Strings are TLA+ strings; Rust's 0-based byte offsets are kept, and     *)
(* SubSeq is shifted by one where the code slices.  Option<T> is a tuple:  *)
(* None is <<>> and Some(x) is <<x>>.  An Instant is kept as the seconds   *)
(* elapsed since it was taken (Instant::now() is 0, the clock ages it).    *)
(***************************************************************************)
EXTENDS Integers, Sequences, FiniteSets, TLC

VARIABLES
    browser,     \* the NymMixnetBrowser struct (fields under their source names)
    to_gui,      \* network -> UI queue (message_sender / message_receiver)
    from_gui,    \* UI -> network queue (gui_to_mixnet_tx / gui_to_mixnet_rx)
    gui_sender,  \* GUI_TO_MIXNET_SENDER: TRUE once the slot holds Some(sender)
    conn,        \* position of the connect_with_status task
    network,     \* requests the mixnet has taken and no server has answered yet
    inputs,      \* input events (clicks, edits) the user has made so far
    last         \* the last UI operation that acted, and how its dispatch ended

vars == <<browser, to_gui, from_gui, gui_sender, conn, network, inputs, last>>

-----------------------------------------------------------------------------
(* Bounds of the model *)

MaxHist == 2      \* history entries kept
MaxInbox == 2     \* events waiting on the network -> UI queue
MaxOutbox == 1    \* requests waiting on the UI -> network queue
MaxInputs == 5    \* input events (clicks, edits) of one run
ClockStep == 30   \* seconds the clock advances per step
MaxUrlLen == 3    \* characters after the scheme of a URL handed to parse_nym_url
MaxTokens == 5    \* tokens of a text handed to extract_nym_links

(* What the user types, what links are activated, what the network delivers *)
AddressInputs == {"nym://a.@/p", "p", "nym://"}
Hrefs == {"nym://d", "/p", "p", "http://e"}
Payloads == {"OK\nnym://b.@/p"}
NymAddress == "c"

-----------------------------------------------------------------------------
(* Option and string helpers *)

None == <<>>
Some(x) == <<x>>
IsSome(o) == o # <<>>
Unwrap(o) == o[1]

Range(s) == {s[i] : i \in 1..Len(s)}

CharAt(s, i) == SubSeq(s, i + 1, i + 1)
From(s, i) == SubSeq(s, i + 1, Len(s))
UpTo(s, i) == SubSeq(s, 1, i)

starts_with(s, p) == Len(s) >= Len(p) /\ SubSeq(s, 1, Len(p)) = p

is_whitespace(c) == c \in {" ", "\n", "\t"}

RECURSIVE trim_start(_)
trim_start(s) ==
    IF s # "" /\ is_whitespace(CharAt(s, 0)) THEN trim_start(From(s, 1)) ELSE s

RECURSIVE trim_end(_)
trim_end(s) ==
    IF s # "" /\ is_whitespace(CharAt(s, Len(s) - 1))
    THEN trim_end(UpTo(s, Len(s) - 1)) ELSE s

trim(s) == trim_end(trim_start(s))

\* str::find(pattern): the 0-based offset of the first match, -1 for None
RECURSIVE FindFrom(_, _, _)
FindFrom(s, p, i) ==
    IF i + Len(p) > Len(s) THEN -1
    ELSE IF SubSeq(s, i + 1, i + Len(p)) = p THEN i
    ELSE FindFrom(s, p, i + 1)

find(s, p) == FindFrom(s, p, 0)

contains(s, p) == find(s, p) # -1

-----------------------------------------------------------------------------
(* Messages *)

SendRequest(recipient, message) ==
    [type |-> "SendRequest", recipient |-> recipient, message |-> message]
ReceivedMessage(content) ==
    [type |-> "ReceivedMessage", content |-> content]
ConnectionStatus(status, loading, client_address) ==
    [type |-> "ConnectionStatus", status |-> status, loading |-> loading,
     client_address |-> client_address]

HistoryEntry(server, page, content) ==
    [server |-> server, page |-> page, content |-> content]

-----------------------------------------------------------------------------
(* NymMixnetBrowser::new *)

new ==
    [address_bar |-> "",
     current_content |-> "",
     loading |-> TRUE,
     page_loading |-> FALSE,
     error |-> None,
     connection_status |-> "Connecting to Mixnet...",
     server_address |-> "",
     client_address |-> "",
     history |-> <<>>,
     connection_attempted |-> FALSE,
     pending_navigation |-> None,
     current_history_index |-> 0,
     page_load_start_time |-> None]

-----------------------------------------------------------------------------
(* Request construction and dispatch *)

TIMEOUT_SECS == 30

saturating_sub(a, b) == IF a >= b THEN a - b ELSE 0

Ok(msg) == [ok |-> TRUE, out |-> <<msg>>, err |-> ""]
Err(e) == [ok |-> FALSE, out |-> <<>>, err |-> e]

get_gui_sender == gui_sender

\* send_request without the check of the recipient
Mutant_send_request_no_recipient_check(b, request_path) ==
    IF trim(b.client_address) = ""
    THEN Err("Not connected yet - waiting for client address")
    ELSE IF get_gui_sender
    THEN Ok(SendRequest(trim(b.server_address),
                        "GET " \o request_path \o " FROM " \o
                        trim(b.client_address)))
    ELSE Err("Not connected to Mixnet")

\* sender.send cannot fail here: the receiving end lives in mixnet_task,
\* which never returns, so the "Send error" arm is not reachable.
send_request(b, request_path) ==
    LET recipient == trim(b.server_address)
        my_address == trim(b.client_address)
    IN  IF recipient = "" THEN Err("No server address specified")
        ELSE IF my_address = ""
        THEN Err("Not connected yet - waiting for client address")
        ELSE IF get_gui_sender
        THEN Ok(SendRequest(recipient,
                            "GET " \o request_path \o " FROM " \o my_address))
        ELSE Err("Not connected to Mixnet")

\* parse_nym_url leaving the separating "/" at the head of the path
Mutant_parse_nym_url_keeps_slash(url) ==
    IF ~starts_with(url, "nym://") THEN None
    ELSE LET without_protocol == From(url, 6)
             slash_pos == find(without_protocol, "/")
         IN  IF slash_pos # -1
             THEN Some(<<UpTo(without_protocol, slash_pos),
                         From(without_protocol, slash_pos)>>)
             ELSE Some(<<without_protocol, "">>)

parse_nym_url(url) ==
    IF ~starts_with(url, "nym://") THEN None
    ELSE LET without_protocol == From(url, 6)
             slash_pos == find(without_protocol, "/")
         IN  IF slash_pos # -1
             THEN Some(<<UpTo(without_protocol, slash_pos),
                         From(without_protocol, slash_pos + 1)>>)
             ELSE Some(<<without_protocol, "">>)

parse_and_set_url(b, url) ==
    LET parsed == parse_nym_url(url)
    IN  IF IsSome(parsed)
        THEN [b EXCEPT !.server_address = trim(Unwrap(parsed)[1]),
                       !.address_bar = Unwrap(parsed)[2]]
        ELSE [b EXCEPT !.address_bar = trim(url)]

\* add_to_history leaving the cursor one past the last entry
Mutant_add_to_history_past_end(b) ==
    LET history == Append(IF b.current_history_index <
                               saturating_sub(Len(b.history), 1)
                          THEN SubSeq(b.history, 1, b.current_history_index + 1)
                          ELSE b.history,
                          HistoryEntry(b.server_address, b.address_bar,
                                       b.current_content))
    IN  [b EXCEPT !.history = history, !.current_history_index = Len(history)]

\* add_to_history forgetting to move the cursor
Mutant_add_to_history_stale_cursor(b) ==
    [b EXCEPT !.history =
        Append(IF b.current_history_index < saturating_sub(Len(b.history), 1)
               THEN SubSeq(b.history, 1, b.current_history_index + 1)
               ELSE b.history,
               HistoryEntry(b.server_address, b.address_bar, b.current_content))]

\* add_to_history truncating to the cursor instead of past it
Mutant_add_to_history_truncate(b) ==
    LET history == Append(IF b.current_history_index <
                               saturating_sub(Len(b.history), 1)
                          THEN SubSeq(b.history, 1, b.current_history_index)
                          ELSE b.history,
                          HistoryEntry(b.server_address, b.address_bar,
                                       b.current_content))
    IN  [b EXCEPT !.history = history,
                  !.current_history_index = saturating_sub(Len(history), 1)]

add_to_history(b) ==
    LET kept == IF b.current_history_index < saturating_sub(Len(b.history), 1)
                THEN SubSeq(b.history, 1, b.current_history_index + 1)
                ELSE b.history
        history == Append(kept, HistoryEntry(b.server_address, b.address_bar,
                                             b.current_content))
    IN  [b EXCEPT !.history = history,
                  !.current_history_index = saturating_sub(Len(history), 1)]

StartLoad(b) ==
    [b EXCEPT !.page_loading = TRUE, !.page_load_start_time = Some(0)]

FailLoad(b, e) ==
    [b EXCEPT !.error = Some(e), !.page_loading = FALSE,
              !.page_load_start_time = None]

\* the path handle_navigation and reload_current_page build from the address bar
AddressBarPath(b) ==
    IF b.address_bar = "" THEN "/"
    ELSE IF starts_with(b.address_bar, "/") THEN b.address_bar
    ELSE "/" \o b.address_bar

\* What an operation returns to its caller in the model: the browser after it,
\* the requests it put on the UI -> network queue, and how send_request ended
\* ("none" when the operation never called it).
Result(b, r) ==
    [b |-> b, out |-> r.out, dispatch |-> IF r.ok THEN "ok" ELSE "err",
     err |-> r.err]
NoDispatch(b) == [b |-> b, out |-> <<>>, dispatch |-> "none", err |-> ""]

handle_navigation(b) ==
    LET b1 == StartLoad(parse_and_set_url(b, b.address_bar))
        r == send_request(b1, AddressBarPath(b1))
    IN  IF r.ok THEN Result(add_to_history(b1), r)
        ELSE Result(FailLoad(b1, r.err), r)

\* navigate_to sending the path as given, without the leading "/"
Mutant_navigate_to_raw_path(b, path) ==
    LET b1 == StartLoad(add_to_history(b))
        r == send_request(b1, path)
    IN  IF ~r.ok THEN Result(FailLoad(b1, r.err), r)
        ELSE Result([b1 EXCEPT !.address_bar = path], r)

navigate_to(b, path) ==
    LET b1 == StartLoad(add_to_history(b))
        request_path == IF starts_with(path, "/") THEN path ELSE "/" \o path
        r == send_request(b1, request_path)
    IN  IF ~r.ok THEN Result(FailLoad(b1, r.err), r)
        ELSE Result([b1 EXCEPT !.address_bar = path], r)

\* handle_link_click keeping the new server when the dispatch fails
Mutant_handle_link_click_no_rollback(b, href) ==
    IF starts_with(href, "nym://")
    THEN LET parsed == parse_nym_url(href)
         IN  IF ~IsSome(parsed) THEN NoDispatch(b)
             ELSE LET server == Unwrap(parsed)[1]
                      page == Unwrap(parsed)[2]
                  IN  IF contains(server, ".") /\ contains(server, "@")
                      THEN \* external link
                           LET old_server == b.server_address
                               path == IF page = "" THEN "/" ELSE "/" \o page
                               b1 == StartLoad([b EXCEPT !.server_address = server,
                                                         !.address_bar = page])
                               r == send_request(b1, path)
                           IN  IF ~r.ok
                               THEN Result(FailLoad(b1, r.err), r)
                               ELSE Result(add_to_history(b1), r)
                      ELSE \* local link
                           IF b.server_address # ""
                           THEN LET path == IF page = "" THEN "/" \o server
                                            ELSE "/" \o server \o "/" \o page
                                    b1 == StartLoad(b)
                                    r == send_request(b1, path)
                                IN  IF ~r.ok THEN Result(FailLoad(b1, r.err), r)
                                    ELSE Result(add_to_history(b1), r)
                           ELSE NoDispatch(b)
    ELSE IF starts_with(href, "/") THEN navigate_to(b, From(href, 1))
    ELSE navigate_to(b, href)

handle_link_click(b, href) ==
    IF starts_with(href, "nym://")
    THEN LET parsed == parse_nym_url(href)
         IN  IF ~IsSome(parsed) THEN NoDispatch(b)
             ELSE LET server == Unwrap(parsed)[1]
                      page == Unwrap(parsed)[2]
                  IN  IF contains(server, ".") /\ contains(server, "@")
                      THEN \* external link
                           LET old_server == b.server_address
                               path == IF page = "" THEN "/" ELSE "/" \o page
                               b1 == StartLoad([b EXCEPT !.server_address = server,
                                                         !.address_bar = page])
                               r == send_request(b1, path)
                           IN  IF ~r.ok
                               THEN Result(FailLoad([b1 EXCEPT !.server_address =
                                                                 old_server],
                                                    r.err), r)
                               ELSE Result(add_to_history(b1), r)
                      ELSE \* local link
                           IF b.server_address # ""
                           THEN LET path == IF page = "" THEN "/" \o server
                                            ELSE "/" \o server \o "/" \o page
                                    b1 == StartLoad(b)
                                    r == send_request(b1, path)
                                IN  IF ~r.ok THEN Result(FailLoad(b1, r.err), r)
                                    ELSE Result(add_to_history(b1), r)
                           ELSE NoDispatch(b)
    ELSE IF starts_with(href, "/") THEN navigate_to(b, From(href, 1))
    ELSE navigate_to(b, href)

\* handle_server_message treating an "ERROR:" payload as a structured error
Mutant_handle_server_message_error(b, content) ==
    [b EXCEPT !.current_content = IF starts_with(content, "OK\n")
                                  THEN From(content, 3) ELSE content,
              !.error = IF starts_with(content, "ERROR:")
                        THEN Some(content) ELSE None,
              !.page_loading = FALSE,
              !.page_load_start_time = None]

\* handle_server_message dropping a response that no load is waiting for
Mutant_handle_server_message_drops_late(b, content) ==
    IF b.page_loading
    THEN [b EXCEPT !.current_content = IF starts_with(content, "OK\n")
                                       THEN From(content, 3) ELSE content,
                   !.error = None,
                   !.page_loading = FALSE,
                   !.page_load_start_time = None]
    ELSE b

handle_server_message(b, content) ==
    [b EXCEPT !.current_content = IF starts_with(content, "OK\n")
                                  THEN From(content, 3) ELSE content,
              !.error = None,
              !.page_loading = FALSE,
              !.page_load_start_time = None]

Restore(b, index) ==
    LET moved == [b EXCEPT !.current_history_index = index]
    IN  IF index < Len(b.history)
        THEN LET entry == b.history[index + 1]
             IN  [moved EXCEPT !.server_address = entry.server,
                               !.address_bar = entry.page,
                               !.current_content = entry.content,
                               !.error = None,
                               !.page_loading = FALSE,
                               !.page_load_start_time = None]
        ELSE moved

go_back(b) ==
    IF b.current_history_index > 0
    THEN Restore(b, b.current_history_index - 1)
    ELSE b

go_forward(b) ==
    IF b.current_history_index < saturating_sub(Len(b.history), 1)
    THEN Restore(b, b.current_history_index + 1)
    ELSE b

reload_current_page(b) ==
    IF b.server_address # ""
    THEN LET b1 == StartLoad(b)
             r == send_request(b1, AddressBarPath(b1))
         IN  IF ~r.ok THEN Result(FailLoad(b1, r.err), r) ELSE Result(b1, r)
    ELSE NoDispatch(b)

\* the timeout check at the top of show()
TimedOut(b) ==
    /\ b.page_loading
    /\ IsSome(b.page_load_start_time)
    /\ Unwrap(b.page_load_start_time) > TIMEOUT_SECS

\* the timeout check reporting the error but leaving the load running
Mutant_check_timeout_keeps_loading(b) ==
    IF TimedOut(b)
    THEN [b EXCEPT !.error = Some("Page load timeout - server not responding")]
    ELSE b

check_timeout(b) ==
    IF TimedOut(b)
    THEN [b EXCEPT !.error = Some("Page load timeout - server not responding"),
                   !.page_loading = FALSE,
                   !.page_load_start_time = None]
    ELSE b

\* the event loop of show() ignoring the address a status event carries
Mutant_apply_message_drops_address(b, message) ==
    IF message.type = "ReceivedMessage"
    THEN handle_server_message(b, message.content)
    ELSE IF message.type = "ConnectionStatus"
    THEN [b EXCEPT !.connection_status = message.status,
                   !.loading = message.loading]
    ELSE b

\* the event loop of show() treating an "ERROR:" payload as a lost connection
Mutant_apply_message_error_disconnects(b, message) ==
    IF message.type = "ReceivedMessage"
    THEN IF starts_with(message.content, "ERROR:")
         THEN [handle_server_message(b, message.content)
                   EXCEPT !.connection_status = "Connection failed",
                          !.loading = TRUE]
         ELSE handle_server_message(b, message.content)
    ELSE IF message.type = "ConnectionStatus"
    THEN [b EXCEPT !.connection_status = message.status,
                   !.loading = message.loading,
                   !.client_address = IF message.client_address # ""
                                      THEN message.client_address
                                      ELSE @]
    ELSE b

\* the event loop of show(): every drained message, in arrival order
apply_message(b, message) ==
    IF message.type = "ReceivedMessage"
    THEN handle_server_message(b, message.content)
    ELSE IF message.type = "ConnectionStatus"
    THEN [b EXCEPT !.connection_status = message.status,
                   !.loading = message.loading,
                   !.client_address = IF message.client_address # ""
                                      THEN message.client_address
                                      ELSE @]
    ELSE b

RECURSIVE process_messages(_, _)
process_messages(b, messages) ==
    IF messages = <<>> THEN b
    ELSE process_messages(apply_message(b, Head(messages)), Tail(messages))

IsDelimiter(c) == is_whitespace(c) \/ c \in {")", "]", ">", "\"", "'"}

RECURSIVE FindDelimiter(_, _)
FindDelimiter(s, i) ==
    IF i >= Len(s) THEN -1
    ELSE IF IsDelimiter(CharAt(s, i)) THEN i
    ELSE FindDelimiter(s, i + 1)

RECURSIVE ExtractFrom(_, _, _)
ExtractFrom(content, search_pos, links) ==
    LET start == find(From(content, search_pos), "nym://")
    IN  IF start = -1 THEN links
        ELSE LET actual_start == search_pos + start
                 remaining == From(content, actual_start)
                 found == FindDelimiter(remaining, 0)
                 end == IF found # -1 THEN found ELSE Len(remaining)
                 link == UpTo(remaining, end)
                 pushed == IF link # "" /\ link \notin Range(links)
                           THEN Append(links, link) ELSE links
                 next_pos == actual_start + end
             IN  IF next_pos >= Len(content) THEN pushed
                 ELSE ExtractFrom(content, next_pos, pushed)

\* extract_nym_links pushing every match, seen before or not
RECURSIVE Mutant_ExtractFrom_no_dedup(_, _, _)
Mutant_ExtractFrom_no_dedup(content, search_pos, links) ==
    LET start == find(From(content, search_pos), "nym://")
    IN  IF start = -1 THEN links
        ELSE LET actual_start == search_pos + start
                 remaining == From(content, actual_start)
                 found == FindDelimiter(remaining, 0)
                 end == IF found # -1 THEN found ELSE Len(remaining)
                 link == UpTo(remaining, end)
                 pushed == IF link # "" THEN Append(links, link) ELSE links
                 next_pos == actual_start + end
             IN  IF next_pos >= Len(content) THEN pushed
                 ELSE Mutant_ExtractFrom_no_dedup(content, next_pos, pushed)

Mutant_extract_nym_links_no_dedup(content) ==
    Mutant_ExtractFrom_no_dedup(content, 0, <<>>)

extract_nym_links(content) == ExtractFrom(content, 0, <<>>)

-----------------------------------------------------------------------------
(* The state machine.  show() runs its blocks in a fixed order once per frame, *)
(* (init, timeout check, pending navigation, event drain, widgets); each block *)
(* is an action.  A pending navigation is always the first thing the next      *)
(* frame handles, so no widget acts while one is set; the other blocks are     *)
(* left to interleave, since the clock and the background tasks run between    *)
(* any two of them.                                                            *)

\* `last` names the UI operation that acted last, its argument, how its call
\* of send_request ended, how many requests it enqueued, the events it
\* drained, and the fields it started from that later states are compared to.
Op(name, arg, r) ==
    [op |-> name, arg |-> arg, dispatch |-> r.dispatch, err |-> r.err,
     sent |-> Len(r.out), events |-> <<>>,
     pre |-> [history |-> browser.history,
              current_history_index |-> browser.current_history_index,
              error |-> browser.error,
              server_address |-> browser.server_address,
              page_loading |-> browser.page_loading]]

Init ==
    /\ browser = new
    /\ to_gui = <<>>
    /\ from_gui = <<>>
    /\ gui_sender = FALSE
    /\ conn = "none"
    /\ network = 0
    /\ inputs = 0
    /\ last = Op("new", "", NoDispatch(new))

Background == <<to_gui, gui_sender, conn, network>>

\* a UI operation that returned r: its requests join the UI -> network queue
Act(name, arg, r) ==
    /\ Len(r.b.history) <= MaxHist
    /\ Len(from_gui) + Len(r.out) <= MaxOutbox
    /\ browser' = r.b
    /\ from_gui' = from_gui \o r.out
    /\ last' = Op(name, arg, r)
    /\ UNCHANGED Background

\* an input event of the user, handled by the widget code of show()
Input(name, arg, r) ==
    /\ inputs < MaxInputs
    /\ inputs' = inputs + 1
    /\ Act(name, arg, r)

Ready == browser.connection_attempted
Idle == Ready /\ browser.pending_navigation = None

\* init() and start_connection(): the first show() spawns the connect task
ShowInit ==
    /\ ~browser.connection_attempted
    /\ browser' = [browser EXCEPT !.connection_attempted = TRUE]
    /\ conn' = "spawned"
    /\ last' = Op("init", "", NoDispatch(browser))
    /\ UNCHANGED <<to_gui, from_gui, gui_sender, network, inputs>>

ShowTimeout ==
    /\ Ready
    /\ TimedOut(browser)
    /\ Act("timeout", "", NoDispatch(check_timeout(browser)))
    /\ UNCHANGED inputs

ShowPending ==
    /\ Ready
    /\ IsSome(browser.pending_navigation)
    /\ LET href == Unwrap(browser.pending_navigation)
       IN  Act("handle_link_click", href,
               handle_link_click([browser EXCEPT !.pending_navigation = None],
                                 href))
    /\ UNCHANGED inputs

ShowDrain ==
    /\ Ready
    /\ to_gui # <<>>
    /\ browser' = process_messages(browser, to_gui)
    /\ to_gui' = <<>>
    /\ last' = [Op("drain", "", NoDispatch(browser)) EXCEPT !.events = to_gui]
    /\ UNCHANGED <<from_gui, gui_sender, conn, network, inputs>>

can_go_back(b) == b.current_history_index > 0
can_go_forward(b) == b.current_history_index < saturating_sub(Len(b.history), 1)
can_navigate(b) == ~b.loading /\ trim(b.address_bar) # ""
content_shown(b) == ~b.page_loading /\ b.current_content # ""

ClickBack ==
    /\ Idle
    /\ can_go_back(browser)
    /\ Input("go_back", "", NoDispatch(go_back(browser)))

ClickForward ==
    /\ Idle
    /\ can_go_forward(browser)
    /\ Input("go_forward", "", NoDispatch(go_forward(browser)))

ClickReload ==
    /\ Idle
    /\ Input("reload_current_page", "", reload_current_page(browser))

EditAddress(text) ==
    /\ Idle
    /\ text # browser.address_bar
    /\ Input("edit", text, NoDispatch([browser EXCEPT !.address_bar = text]))

\* the Go button, and Enter in the address bar
ClickGo ==
    /\ Idle
    /\ can_navigate(browser)
    /\ Input("handle_navigation", browser.address_bar, handle_navigation(browser))

\* a click on the rendered content: the first nym:// link of it is queued
ClickContent ==
    /\ Idle
    /\ content_shown(browser)
    /\ LET links == extract_nym_links(browser.current_content)
       IN  /\ links # <<>>
           /\ Input("click", links[1],
                    NoDispatch([browser EXCEPT !.pending_navigation =
                                               Some(links[1])]))

\* a link of the rendered page activated with its own target
ActivateLink(href) ==
    /\ Idle
    /\ content_shown(browser)
    /\ Input("click", href,
             NoDispatch([browser EXCEPT !.pending_navigation = Some(href)]))

(* connect_with_status, run by the background runtime *)

Emit(message) ==
    /\ Len(to_gui) < MaxInbox
    /\ to_gui' = Append(to_gui, message)

Foreground == <<browser, inputs, last>>

ConnectStart ==
    /\ conn = "spawned"
    /\ Emit(ConnectionStatus("Connecting to Mixnet...", TRUE, ""))
    /\ conn' = "connecting"
    /\ UNCHANGED <<Foreground, from_gui, gui_sender, network>>

\* a failed handshake announced to the UI as a status of its own
Mutant_ConnectFail_reports_failure ==
    /\ conn = "connecting"
    /\ Emit(ConnectionStatus("Connection failed", FALSE, ""))
    /\ conn' = "failed"
    /\ UNCHANGED <<Foreground, from_gui, gui_sender, network>>

\* build() or connect_to_mixnet() failed: `?` returns, the caller only logs
ConnectFail ==
    /\ conn = "connecting"
    /\ conn' = "failed"
    /\ UNCHANGED <<Foreground, to_gui, from_gui, gui_sender, network>>

ConnectAnnounce ==
    /\ conn = "connecting"
    /\ Emit(ConnectionStatus("Connected", FALSE, NymAddress))
    /\ conn' = "announced"
    /\ UNCHANGED <<Foreground, from_gui, gui_sender, network>>

\* the slot is filled and mixnet_task spawned after the Connected event is sent
ConnectPublish ==
    /\ conn = "announced"
    /\ gui_sender' = TRUE
    /\ conn' = "running"
    /\ UNCHANGED <<Foreground, to_gui, from_gui, network>>

(* mixnet_task: one iteration of its select! loop *)

\* The client is ephemeral: its address reaches a server only inside a
\* request, so what arrives is a server's reply to a request it was sent.
BridgeReceive(payload) ==
    /\ conn = "running"
    /\ network > 0
    /\ network' = network - 1
    /\ Emit(ReceivedMessage(payload))
    /\ UNCHANGED <<Foreground, from_gui, gui_sender, conn>>

\* recipient.parse() and send_plain_message() belong to the mixnet library:
\* either may succeed or fail on any request
BridgeSend ==
    /\ conn = "running"
    /\ from_gui # <<>>
    /\ from_gui' = Tail(from_gui)
    /\ network' = network + 1
    /\ UNCHANGED <<Foreground, to_gui, gui_sender, conn>>

BridgeSendError ==
    /\ conn = "running"
    /\ from_gui # <<>>
    /\ from_gui' = Tail(from_gui)
    /\ Emit(ReceivedMessage("ERROR: " \o "send failed"))
    /\ UNCHANGED <<Foreground, gui_sender, conn, network>>

\* the invalid-address arm reporting a connection status instead of content
Mutant_BridgeInvalidAddress_reports_status ==
    /\ conn = "running"
    /\ from_gui # <<>>
    /\ from_gui' = Tail(from_gui)
    /\ Emit(ConnectionStatus("Invalid address", TRUE, ""))
    /\ UNCHANGED <<Foreground, gui_sender, conn, network>>

BridgeInvalidAddress ==
    /\ conn = "running"
    /\ from_gui # <<>>
    /\ from_gui' = Tail(from_gui)
    /\ Emit(ReceivedMessage("ERROR: Invalid address - " \o "bad recipient"))
    /\ UNCHANGED <<Foreground, gui_sender, conn, network>>

\* time passes for the load that is under way (start_time.elapsed() grows);
\* past the threshold every further second reads the same
ClockTick ==
    /\ IsSome(browser.page_load_start_time)
    /\ Unwrap(browser.page_load_start_time) <= TIMEOUT_SECS
    /\ browser' = [browser EXCEPT !.page_load_start_time =
                                    Some(Unwrap(@) + ClockStep)]
    /\ UNCHANGED <<to_gui, from_gui, gui_sender, conn, network, inputs, last>>

Next ==
    \/ ShowInit
    \/ ShowTimeout
    \/ ShowPending
    \/ ShowDrain
    \/ ClickBack
    \/ ClickForward
    \/ ClickReload
    \/ \E text \in AddressInputs : EditAddress(text)
    \/ ClickGo
    \/ ClickContent
    \/ \E href \in Hrefs : ActivateLink(href)
    \/ ConnectStart
    \/ ConnectFail
    \/ ConnectAnnounce
    \/ ConnectPublish
    \/ \E payload \in Payloads : BridgeReceive(payload)
    \/ BridgeSend
    \/ BridgeSendError
    \/ BridgeInvalidAddress
    \/ ClockTick

Spec == Init /\ [][Next]_vars

-----------------------------------------------------------------------------
(* Fairness: show() runs once per frame and the spinner of a page load keeps  *)
(* frames coming, so the timeout check and the event drain are taken when     *)
(* they can act; the clock and the background runtime keep running.           *)

LiveSpec ==
    /\ Spec
    /\ WF_vars(ShowTimeout)
    /\ WF_vars(ShowPending)
    /\ WF_vars(ShowDrain)
    /\ WF_vars(ClockTick)

-----------------------------------------------------------------------------
(* The pure functions on their own: a specification draws an input and an    *)
(* action applies the function to it, leaving the result in `last`; the      *)
(* browser and the queues stay as constructed.                               *)

RECURSIVE Strings(_, _)
Strings(alphabet, n) ==
    IF n = 0 THEN {""}
    ELSE LET shorter == Strings(alphabet, n - 1)
         IN  shorter \cup {s \o c : s \in shorter, c \in alphabet}

Constructed ==
    /\ browser = new
    /\ to_gui = <<>>
    /\ from_gui = <<>>
    /\ gui_sender = FALSE
    /\ conn = "none"
    /\ network = 0
    /\ inputs = 0

Untouched == <<browser, to_gui, from_gui, gui_sender, conn, network, inputs>>

UrlSchemes == {"nym://", "nym:/", "http://", ""}
UrlInputs == {scheme \o rest : scheme \in UrlSchemes,
                               rest \in Strings({"a", "/", "."}, MaxUrlLen)}

ParseInit ==
    /\ Constructed
    /\ \E url \in UrlInputs : last = [op |-> "input", arg |-> url, result |-> None]

ParseUrl ==
    /\ last.op = "input"
    /\ last' = [op |-> "parse_nym_url", arg |-> last.arg,
                result |-> parse_nym_url(last.arg)]
    /\ UNCHANGED Untouched

ParseNext == ParseUrl

ParseSpec == ParseInit /\ [][ParseNext]_vars

TextTokens == {"nym://a", "nym://b", "nym://", " ", ")", "x"}
TextInputs == Strings(TextTokens, MaxTokens)

ExtractInit ==
    /\ Constructed
    /\ \E text \in TextInputs : last = [op |-> "input", arg |-> text, result |-> <<>>]

ExtractLinks ==
    /\ last.op = "input"
    /\ last' = [op |-> "extract_nym_links", arg |-> last.arg,
                result |-> extract_nym_links(last.arg)]
    /\ UNCHANGED Untouched

ExtractNext == ExtractLinks

ExtractSpec == ExtractInit /\ [][ExtractNext]_vars

(* handle_link_click on its own: the browser is drawn from the values its    *)
(* fields can hold when a link is pending, with the connect task either just *)
(* before or just after it fills the sender slot, and show() handles the     *)
(* pending navigation.                                                       *)

LinkHrefs == {"nym://b.@/p", "nym://b.@", "nym://d", "p"}

VisitedPage == HistoryEntry("a.@", "p", "")

LinkBrowsers ==
    {[new EXCEPT !.connection_attempted = TRUE,
                 !.loading = FALSE,
                 !.connection_status = "Connected",
                 !.server_address = server,
                 !.client_address = client,
                 !.error = error,
                 !.history = [i \in 1..visited |-> VisitedPage],
                 !.current_history_index = cursor,
                 !.current_content = "x",
                 !.pending_navigation = Some(href)] :
        server \in {"", "a.@"}, client \in {"", NymAddress},
        error \in {None, Some("Page load timeout - server not responding")},
        visited \in 0..MaxHist, cursor \in 0..MaxHist, href \in LinkHrefs}

LinkInit ==
    /\ browser \in {b \in LinkBrowsers :
                       b.current_history_index <= saturating_sub(Len(b.history), 1)}
    /\ to_gui = <<>>
    /\ from_gui = <<>>
    /\ conn \in {"announced", "running"}
    /\ gui_sender = (conn = "running")
    /\ network = 0
    /\ inputs = 0
    /\ last = Op("click", Unwrap(browser.pending_navigation), NoDispatch(browser))

LinkNext == ShowPending

LinkSpec == LinkInit /\ [][LinkNext]_vars

-----------------------------------------------------------------------------
(* Properties *)

Navigated == last.op \in {"handle_navigation", "handle_link_click"}
Committed == Navigated /\ last.dispatch = "ok"
DispatchFailed == Navigated /\ last.dispatch = "err"

AtTail(index, history) == index >= Len(history) - 1

\* the link kinds handle_link_click tells apart
IsExternalLink(href) ==
    /\ starts_with(href, "nym://")
    /\ contains(Unwrap(parse_nym_url(href))[1], ".")
    /\ contains(Unwrap(parse_nym_url(href))[1], "@")
IsLocalLink(href) == starts_with(href, "nym://") /\ ~IsExternalLink(href)
IsUnsupportedScheme(href) ==
    starts_with(href, "http://") \/ starts_with(href, "https://")

\* C1: in every reachable state either history is empty and
\* current_history_index = 0, or 0 <= current_history_index < len(history).
C1_HistoryIndexValid ==
    IF browser.history = <<>>
    THEN browser.current_history_index = 0
    ELSE /\ 0 <= browser.current_history_index
         /\ browser.current_history_index < Len(browser.history)

C1_Witness ==
    /\ last.op = "go_back"
    /\ Len(browser.history) = 2
    /\ browser.current_history_index = 0

\* C2 as stated: a navigation that dispatched successfully leaves history one
\* entry longer than it found it, whatever the cursor was, with the cursor on
\* the last entry.
C2_LengthGrowsByOne ==
    Committed =>
        /\ Len(browser.history) = Len(last.pre.history) + 1
        /\ browser.current_history_index = Len(browser.history) - 1

\* C2 amended: a navigation that dispatched successfully leaves the cursor on
\* the last entry; history is one entry longer than before when the cursor
\* was at the tail (or history was empty), and i + 2 entries long when the
\* cursor was at i before the tail.
C2_LengthAfterCommit ==
    Committed =>
        /\ browser.current_history_index = Len(browser.history) - 1
        /\ Len(browser.history) =
               IF AtTail(last.pre.current_history_index, last.pre.history)
               THEN Len(last.pre.history) + 1
               ELSE last.pre.current_history_index + 2

C2_Witness ==
    /\ Committed
    /\ last.pre.history # <<>>
    /\ AtTail(last.pre.current_history_index, last.pre.history)
    /\ Len(browser.history) = 2

\* C3: a committed navigation made while the cursor i is before the tail
\* leaves history = old_history[0..i] followed by exactly one new entry, with
\* current_history_index = i + 1.
C3_ForwardBranchTruncated ==
    (Committed /\ ~AtTail(last.pre.current_history_index, last.pre.history)) =>
        LET i == last.pre.current_history_index
        IN  /\ Len(browser.history) = i + 2
            /\ SubSeq(browser.history, 1, i + 1) = SubSeq(last.pre.history, 1, i + 1)
            /\ browser.current_history_index = i + 1

C3_Witness ==
    /\ Committed
    /\ last.pre.current_history_index = 0
    /\ Len(last.pre.history) = 2
    /\ browser.history[2] # last.pre.history[2]

\* C4: for every navigation entry point, a dispatch that fails leaves history
\* and current_history_index as they were before the call and sets error to
\* the returned message.
C4_FailedDispatchKeepsHistory ==
    DispatchFailed =>
        /\ browser.history = last.pre.history
        /\ browser.current_history_index = last.pre.current_history_index
        /\ browser.error = Some(last.err)

\* the payloads of the ReceivedMessage events the last drain applied
DrainedContent ==
    SelectSeq(last.events, LAMBDA m : m.type = "ReceivedMessage")

UiControl ==
    last.op \in {"handle_navigation", "reload_current_page", "handle_link_click"}

\* an attempt that reaches its dispatch point with server_address empty: an
\* address-bar navigation with a non-nym:// address, a reload, or a click on a
\* link that does not switch the server
EmptyServerAttempt ==
    /\ last.pre.server_address = ""
    /\ \/ last.op = "handle_navigation" /\ ~starts_with(last.arg, "nym://")
       \/ last.op = "reload_current_page"
       \/ last.op = "handle_link_click" /\ ~IsExternalLink(last.arg)

C6_BackThenForwardRestores ==
    (Idle /\ can_go_back(browser) /\ last.op = "drain" /\ DrainedContent # <<>>) =>
        LET restored == go_forward(go_back(browser))
        IN  /\ restored.current_content = browser.current_content
            /\ restored.server_address = browser.server_address
            /\ restored.address_bar = browser.address_bar

\* C7: while page_loading is true no UI-level control (Go, Enter, Reload, a
\* link click) causes a new SendRequest to be enqueued.
C7_OneLoadAtATime ==
    (UiControl /\ last.pre.page_loading) => last.sent = 0

\* C8: handle_link_click on a link with an unsupported scheme sets an error
\* and never reaches send_request: no SendRequest is enqueued, page_loading
\* stays unchanged and no history entry is added.
C8_UnsupportedSchemeRejected ==
    (last.op = "handle_link_click" /\ IsUnsupportedScheme(last.arg)) =>
        /\ IsSome(browser.error)
        /\ last.dispatch = "none"
        /\ last.sent = 0
        /\ browser.page_loading = last.pre.page_loading
        /\ browser.history = last.pre.history

\* C9: when the timeout check finds a load older than 30 seconds it sets
\* page_loading = false, clears the start timestamp and sets error to the
\* timeout message; and while frames keep coming no load stays in
\* page_loading = true forever.
C9_TimeoutEndsLoad ==
    /\ [](last.op = "timeout" =>
            /\ last.pre.page_loading
            /\ ~browser.page_loading
            /\ browser.page_load_start_time = None
            /\ browser.error = Some("Page load timeout - server not responding"))
    /\ [](TimedOut(browser) => ENABLED ShowTimeout)
    /\ (browser.page_loading ~> ~browser.page_loading)

C9_Witness ==
    /\ last.op = "timeout"
    /\ last.pre.error = None
    /\ to_gui = <<>>
    /\ ~browser.page_loading

\* C10: applying a ContentReceived event with payload p sets current_content
\* to p without its first 3 characters when p starts with "OK\n" and to p
\* verbatim otherwise; either way error is None, page_loading is false and
\* the load start timestamp is cleared.
C10_ContentApplied ==
    (last.op = "drain" /\ DrainedContent # <<>>) =>
        LET p == DrainedContent[Len(DrainedContent)].content
        IN  /\ browser.current_content =
                   IF Len(p) >= 3 /\ SubSeq(p, 1, 3) = "OK\n"
                   THEN SubSeq(p, 4, Len(p)) ELSE p
            /\ browser.error = None
            /\ ~browser.page_loading
            /\ browser.page_load_start_time = None

C10_Witness ==
    /\ last.op = "drain"
    /\ DrainedContent # <<>>
    /\ last.pre.page_loading
    /\ starts_with(browser.current_content, "ERROR: ")
    /\ browser.error = None

\* C11: error is None right after a navigation, link click or reload that
\* dispatched successfully; an error shown before it does not remain set.
C11_DispatchClearsError ==
    (UiControl /\ last.dispatch = "ok") => browser.error = None

\* the ConnectionStatus events waiting on the queue that carry an address
AddressReports ==
    SelectSeq(to_gui, LAMBDA m : m.type = "ConnectionStatus" /\ m.client_address # "")

\* C12: client_address is empty initially; it changes only when the drain
\* applies a ConnectionStatus event carrying a non-empty address, which it
\* then takes (an event with an empty address leaves it unchanged); once
\* non-empty it is never empty again.
C12_ClientAddressLatched ==
    /\ browser.client_address = ""
    /\ [][/\ browser.client_address # "" => browser'.client_address # ""
          /\ browser'.client_address # browser.client_address =>
                 ShowDrain /\ AddressReports # <<>>
          /\ ShowDrain =>
                 browser'.client_address =
                     IF AddressReports # <<>>
                     THEN AddressReports[Len(AddressReports)].client_address
                     ELSE browser.client_address]_vars

C12_Witness ==
    /\ last.op = "drain"
    /\ \E i \in 1..Len(last.events) :
           /\ last.events[i].type = "ConnectionStatus"
           /\ last.events[i].client_address = NymAddress
    /\ \E i \in 1..Len(last.events) :
           /\ last.events[i].type = "ConnectionStatus"
           /\ last.events[i].client_address = ""
    /\ browser.client_address = NymAddress

ends_with(s, p) == Len(s) >= Len(p) /\ SubSeq(s, Len(s) - Len(p) + 1, Len(s)) = p

\* C13: every SendRequest on the UI -> network queue has a non-empty
\* recipient and a message "GET <path> FROM <local_address>" whose <path>
\* starts with "/" and whose <local_address> is the non-empty client_address.
C13_RequestWellFormed ==
    \A i \in 1..Len(from_gui) :
        LET m == from_gui[i]
        IN  /\ m.type = "SendRequest"
            /\ m.recipient # ""
            /\ browser.client_address # ""
            /\ starts_with(m.message, "GET /")
            /\ ends_with(m.message, " FROM " \o browser.client_address)
            /\ Len(m.message) >= Len("GET /") + Len(" FROM " \o browser.client_address)

C13_Witness ==
    /\ last.op = "handle_link_click"
    /\ last.arg = "p"
    /\ last.sent = 1
    /\ from_gui # <<>>

FrameOp ==
    last.op \in {"go_back", "go_forward", "reload_current_page", "drain", "timeout"}

\* go_back, go_forward, reload_current_page, the event drain and the timeout
\* check leave the history list as it was
FrameOpsKeepHistory == FrameOp => browser.history = last.pre.history

\* C14: go_back, go_forward, reload_current_page, event draining and the
\* timeout check never add, remove or modify history entries; only committed
\* navigations create entries.
C14_HistoryOnlyByCommit ==
    /\ FrameOpsKeepHistory
    /\ browser.history # last.pre.history => Committed

\* C15: parse_nym_url returns none for every input that does not start with
\* "nym://"; for "nym://" + server + "/" + path it returns (server, path)
\* split at the first "/" after the scheme; for "nym://" + server with no "/"
\* it returns (server, "").
C15_ParseNymUrl ==
    last.op = "parse_nym_url" =>
        LET url == last.arg
            rest == From(url, 6)
        IN  IF ~starts_with(url, "nym://") THEN last.result = None
            ELSE /\ IsSome(last.result)
                 /\ LET server == Unwrap(last.result)[1]
                        path == Unwrap(last.result)[2]
                    IN  /\ ~contains(server, "/")
                        /\ IF contains(rest, "/")
                           THEN server \o "/" \o path = rest
                           ELSE server = rest /\ path = ""

C15_Witness ==
    /\ last.op = "parse_nym_url"
    /\ IsSome(last.result)
    /\ Unwrap(last.result)[1] # ""
    /\ contains(Unwrap(last.result)[2], "/")

\* the nym:// links of a text, duplicates included: in every stretch between
\* two delimiters, what runs from the first "nym://" to the end of the stretch
RECURSIVE LinksOfText(_)
LinksOfText(text) ==
    IF text = "" THEN <<>>
    ELSE LET d == FindDelimiter(text, 0)
             stretch == IF d = -1 THEN text ELSE UpTo(text, d)
             rest == IF d = -1 THEN "" ELSE From(text, d + 1)
             at == find(stretch, "nym://")
         IN  (IF at = -1 THEN <<>> ELSE <<From(stretch, at)>>) \o LinksOfText(rest)

\* a sequence without the later occurrences of its elements
RECURSIVE FirstSeen(_, _)
FirstSeen(seq, seen) ==
    IF seq = <<>> THEN seen
    ELSE FirstSeen(Tail(seq),
                   IF Head(seq) \in Range(seen) THEN seen ELSE Append(seen, Head(seq)))

\* C16: extract_nym_links returns the nym:// links of the text in first-seen
\* order with no duplicates, each match ending at the first following
\* whitespace or closing bracket/quote character; the scan ends on every input.
C16_ExtractNymLinks ==
    last.op = "extract_nym_links" =>
        /\ last.result = FirstSeen(LinksOfText(last.arg), <<>>)
        /\ \A i \in 1..Len(last.result) :
               /\ starts_with(last.result[i], "nym://")
               /\ FindDelimiter(last.result[i], 0) = -1
               /\ \A j \in 1..Len(last.result) : i # j => last.result[i] # last.result[j]
        /\ last.arg = "nym://a nym://b nym://a" => last.result = <<"nym://a", "nym://b">>

C16_Witness ==
    /\ last.op = "extract_nym_links"
    /\ last.arg = "nym://a nym://b nym://a"
    /\ last.result = <<"nym://a", "nym://b">>

\* C17: the connection status the browser shows only moves from Connecting
\* to Connected; once it has shown Connected, no later event, send failure,
\* invalid address or timeout changes connection_status or sets loading back
\* to true.
C17_ConnectedIsStable ==
    /\ [](/\ browser.connection_status \in {"Connecting to Mixnet...", "Connected"}
          /\ browser.connection_status = "Connected" => ~browser.loading)
    /\ [][browser.connection_status = "Connected" =>
              /\ browser'.connection_status = "Connected"
              /\ ~browser'.loading]_vars

C17_Witness ==
    /\ browser.connection_status = "Connected"
    /\ ~browser.loading
    /\ last.op = "timeout"
    /\ starts_with(browser.current_content, "ERROR: ")

\* C18: a click on an external link (a nym:// link whose server holds both
\* '.' and '@') switches server_address to the link's server; if the dispatch
\* of the request then fails, server_address is back at its value before the
\* click, error is set, page_loading is false and history is unchanged.
C18_ExternalLinkRollsBack ==
    (last.op = "handle_link_click" /\ IsExternalLink(last.arg)) =>
        IF last.dispatch = "ok"
        THEN browser.server_address = Unwrap(parse_nym_url(last.arg))[1]
        ELSE /\ last.dispatch = "err"
             /\ browser.server_address = last.pre.server_address
             /\ browser.error = Some(last.err)
             /\ ~browser.page_loading
             /\ browser.history = last.pre.history
             /\ browser.current_history_index = last.pre.current_history_index

C18_Witness ==
    /\ last.op = "handle_link_click"
    /\ IsExternalLink(last.arg)
    /\ last.dispatch = "err"
    /\ last.pre.server_address = "a.@"
    /\ browser.server_address = "a.@"
    /\ browser.history # <<>>

\* C19: for a dequeued SendRequest whose recipient does not parse, the bridge
\* makes no transport send and emits exactly one ReceivedMessage starting
\* with "ERROR: Invalid address - "; for one whose transport send fails it
\* emits exactly one ReceivedMessage starting with "ERROR: "; either way the
\* loop keeps running and no ConnectionStatus event is emitted.
C19_BridgeErrorsAreContent ==
    [][/\ Len(from_gui') < Len(from_gui) =>
              /\ conn = "running" /\ conn' = "running"
              /\ gui_sender' = gui_sender
              /\ from_gui' = Tail(from_gui)
              /\ \/ network' = network + 1 /\ to_gui' = to_gui
                 \/ /\ network' = network
                    /\ to_gui' = Append(to_gui, to_gui'[Len(to_gui')])
                    /\ to_gui'[Len(to_gui')].type = "ReceivedMessage"
                    /\ starts_with(to_gui'[Len(to_gui')].content, "ERROR: ")
       /\ BridgeInvalidAddress =>
              /\ network' = network
              /\ to_gui'[Len(to_gui')].type = "ReceivedMessage"
              /\ starts_with(to_gui'[Len(to_gui')].content,
                             "ERROR: Invalid address - ")
       /\ BridgeSendError =>
              /\ to_gui'[Len(to_gui')].type = "ReceivedMessage"
              /\ starts_with(to_gui'[Len(to_gui')].content, "ERROR: ")]_vars

C19_Witness ==
    /\ conn = "running"
    /\ from_gui = <<>>
    /\ network = 0
    /\ to_gui # <<>>
    /\ to_gui[Len(to_gui)].type = "ReceivedMessage"
    /\ starts_with(to_gui[Len(to_gui)].content, "ERROR: Invalid address - ")

\* C20: if the initial handshake fails, the only ConnectionStatus event ever
\* emitted is the Connecting one: the browser stays with loading = true and
\* the Connecting status forever, client_address stays empty, the sender slot
\* is never set, no retry is attempted and no SendRequest is ever enqueued.
C20_FailedHandshakeStaysConnecting ==
    /\ [](conn = "failed" =>
            /\ browser.loading
            /\ browser.connection_status = "Connecting to Mixnet..."
            /\ browser.client_address = ""
            /\ ~gui_sender
            /\ from_gui = <<>>
            /\ network = 0
            /\ \A i \in 1..Len(to_gui) :
                   to_gui[i] = ConnectionStatus("Connecting to Mixnet...", TRUE, ""))
    /\ [][conn = "failed" =>
              /\ conn' = "failed"
              /\ browser'.connection_attempted
              /\ Len(to_gui') <= Len(to_gui)]_vars

C20_Witness ==
    /\ conn = "failed"
    /\ to_gui = <<>>
    /\ last.op = "reload_current_page"
    /\ browser.address_bar # ""
    /\ browser.loading

TimeoutError == Some("Page load timeout - server not responding")

\* C21: responses are not correlated with requests: every ReceivedMessage the
\* drain finds is applied whatever request it answers and whatever
\* page_loading is.  A response drained while a later request is still
\* outstanding sets current_content and clears page_loading; a response
\* drained after the timeout has fired still overwrites current_content and
\* clears the timeout error.
C21_ResponsesUncorrelated ==
    (last.op = "drain" /\ DrainedContent # <<>>) =>
        LET p == DrainedContent[Len(DrainedContent)].content
            shown == IF starts_with(p, "OK\n") THEN From(p, 3) ELSE p
        IN  /\ (from_gui # <<>> \/ network > 0) =>
                   browser.current_content = shown /\ ~browser.page_loading
            /\ ~last.pre.page_loading =>
                   browser.current_content = shown /\ ~browser.page_loading
            /\ last.pre.error = TimeoutError =>
                   browser.current_content = shown /\ browser.error = None

\* the reply to a first request drained after its timeout, while a second
\* request has not yet left the UI -> network queue
C21_Witness ==
    /\ last.op = "drain"
    /\ DrainedContent # <<>>
    /\ last.pre.error = TimeoutError
    /\ last.pre.page_loading
    /\ from_gui # <<>>
    /\ network = 0
    /\ browser.current_content = "nym://b.@/p"
    /\ ~browser.page_loading
    /\ browser.error = None

\* C22: under every interleaving of the connect task and the UI loop, once
\* the browser has latched a non-empty client_address the sender slot is
\* already set: a navigation with non-empty server_address and client_address
\* never fails with "Not connected to Mixnet".
C22_SlotSetBeforeAddress ==
    /\ browser.client_address # "" => gui_sender
    /\ UiControl => last.err # "Not connected to Mixnet"

\* C23: after every committed navigation (address bar, external link, local
\* nym:// link, relative or absolute link) the history entry at
\* current_history_index has server = server_address and page = address_bar
\* as they stand when the operation returns; stated for the links the claim
\* names, leaving aside hrefs with an http:// or https:// scheme.
C23_EntryRecordsNavigatedPage ==
    (Committed /\ ~IsUnsupportedScheme(last.arg)) =>
        /\ browser.current_history_index < Len(browser.history)
        /\ LET entry == browser.history[browser.current_history_index + 1]
           IN  /\ entry.server = browser.server_address
               /\ entry.page = browser.address_bar

====
